---- MODULE Spec2Model ----
(***************************************************************************)
(* Cliniko MCP server (main.py): the module-level registration of the 20   *)
(* tools and 4 resources on the FastMCP instance, the __main__ start-up    *)
(* with its transport selection, the root and health endpoints of the      *)
(* wrapper app, and the tool and resource handlers with the single         *)
(* ClinikoClient call each of them awaits.                                 *)
(*                                                                         *)
(* FastMCP (name resolution, argument validation, the response envelope,   *)
(* the stdio loop and the SSE app) and ClinikoClient are imported, not     *)
(* defined in main.py.  The dispatch steps below that belong to FastMCP    *)
(* follow section 4.2 of the specification.  Handlers share no state, so   *)
(* one Invocation is followed at a time.                                   *)
(***************************************************************************)
EXTENDS Integers, Sequences, FiniteSets, TLC

VARIABLES
    pc,            \* where the process is: import, main, select, app, stdio, network, exit
    regIdx,        \* the next module-level registration statement to run
    tools,         \* keys of the tool registry, in insertion order
    resources,     \* registered resource templates, in insertion order
    toolsAttr,     \* mcp._tools: the registry mapping, absent, or not usable as one
    envTransport,  \* MCP_TRANSPORT in the environment: <<>> unset, <<v>> set to v
    envPort,       \* PORT in the environment: <<>> unset, <<v>> set to v
    transport,     \* the value __main__ computed, <<>> before it did
    port,          \* the port __main__ computed, -1 before it did
    mode,          \* the transport that was started: none, stdio, network
    selections,    \* how many times the transport branch was taken
    exitCode,      \* the process exit status, -1 while it runs
    cur,           \* the Invocation being handled
    gwCalls,       \* the ClinikoClient calls made for cur
    responses,     \* the Response envelopes produced for cur
    served,        \* Invocations received so far
    lastRoot,      \* the last body the root endpoint returned, <<>> if none
    lastHealth     \* the last body the health endpoint returned, <<>> if none

vars == << pc, regIdx, tools, resources, toolsAttr, envTransport, envPort,
           transport, port, mode, selections, exitCode, cur, gwCalls, responses,
           served, lastRoot, lastHealth >>

\* Bound: Invocations received in one run of the process.
MaxInvocations == 2

-----------------------------------------------------------------------------
\* Strings that the code transforms are tuples of one-character strings.

S_stdio == <<"s", "t", "d", "i", "o">>
S_sse == <<"s", "s", "e">>
S_http == <<"h", "t", "t", "p">>

\* str.lower() on one character.
LowerChar(c) ==
    CASE c = "S" -> "s" [] c = "T" -> "t" [] c = "D" -> "d" [] c = "I" -> "i"
      [] c = "O" -> "o" [] c = "E" -> "e" [] c = "H" -> "h" [] c = "P" -> "p"
      [] c = "G" -> "g" [] c = "R" -> "r" [] c = "C" -> "c"
      [] OTHER -> c

\* str.lower()
Lower(s) == [i \in 1..Len(s) |-> LowerChar(s[i])]

Digits == <<"0", "1", "2", "3", "4", "5", "6", "7", "8", "9">>

DigitValue(c) == CHOOSE d \in 0..9 : Digits[d + 1] = c

IsDigit(c) == \E d \in 1..10 : Digits[d] = c

\* Whether int(s) accepts s (plain decimal literals; the inputs below carry no
\* sign, blank or underscore).
IntAccepts(s) == Len(s) > 0 /\ \A i \in 1..Len(s) : IsDigit(s[i])

RECURSIVE IntOf(_)
\* int(s) for an accepted s.
IntOf(s) ==
    IF Len(s) = 0 THEN 0
    ELSE 10 * IntOf(SubSeq(s, 1, Len(s) - 1)) + DigitValue(s[Len(s)])

\* os.getenv(name, default)
Getenv(env, default) == IF env = <<>> THEN default ELSE env[1]

\* The values of MCP_TRANSPORT and PORT the process is started with.
TransportValues ==
    { <<>>, <<S_stdio>>, << <<"S", "T", "D", "I", "O">> >>, <<S_sse>>,
      << <<"H", "t", "t", "p">> >>, << <<"g", "r", "p", "c">> >>, << <<>> >> }

PortValues == { <<>>, << <<"8", "0", "8", "0">> >>, << <<"8", "0", "a">> >> }

DefaultPort == 8000

-----------------------------------------------------------------------------
\* Registration (module level).

\* The five patient handlers: the registered name, the declared parameters in
\* signature order, the ClinikoClient method the body awaits, and the key the
\* body wraps the result under (<<>>: the result is returned as is).
Tools_patient ==
    << [name |-> "list_patients", kind |-> "list", entity |-> "patient",
        params |-> <<"q">>, gw |-> "list_patients", wrap |-> <<"patients">>],
       [name |-> "get_patient", kind |-> "get", entity |-> "patient",
        params |-> <<"patient_id">>, gw |-> "get_patient", wrap |-> <<>>],
       [name |-> "create_patient", kind |-> "create", entity |-> "patient",
        params |-> <<"patient">>, gw |-> "create_patient", wrap |-> <<>>],
       [name |-> "update_patient", kind |-> "update", entity |-> "patient",
        params |-> <<"patient_id", "patient">>, gw |-> "update_patient", wrap |-> <<>>],
       [name |-> "delete_patient", kind |-> "delete", entity |-> "patient",
        params |-> <<"patient_id">>, gw |-> "delete_patient", wrap |-> <<>>] >>

\* The five appointment handlers: the registered name, the declared parameters in
\* signature order, the ClinikoClient method the body awaits, and the key the
\* body wraps the result under (<<>>: the result is returned as is).
Tools_appointment ==
    << [name |-> "list_appointments", kind |-> "list", entity |-> "appointment",
        params |-> <<"q">>, gw |-> "list_appointments", wrap |-> <<"appointments">>],
       [name |-> "get_appointment", kind |-> "get", entity |-> "appointment",
        params |-> <<"appointment_id">>, gw |-> "get_appointment", wrap |-> <<>>],
       [name |-> "create_appointment", kind |-> "create", entity |-> "appointment",
        params |-> <<"appointment">>, gw |-> "create_appointment", wrap |-> <<>>],
       [name |-> "update_appointment", kind |-> "update", entity |-> "appointment",
        params |-> <<"appointment_id", "appointment">>, gw |-> "update_appointment", wrap |-> <<>>],
       [name |-> "delete_appointment", kind |-> "delete", entity |-> "appointment",
        params |-> <<"appointment_id">>, gw |-> "delete_appointment", wrap |-> <<>>] >>

\* The five invoice handlers: the registered name, the declared parameters in
\* signature order, the ClinikoClient method the body awaits, and the key the
\* body wraps the result under (<<>>: the result is returned as is).
Tools_invoice ==
    << [name |-> "list_invoices", kind |-> "list", entity |-> "invoice",
        params |-> <<"q">>, gw |-> "list_invoices", wrap |-> <<"invoices">>],
       [name |-> "get_invoice", kind |-> "get", entity |-> "invoice",
        params |-> <<"invoice_id">>, gw |-> "get_invoice", wrap |-> <<>>],
       [name |-> "create_invoice", kind |-> "create", entity |-> "invoice",
        params |-> <<"invoice">>, gw |-> "create_invoice", wrap |-> <<>>],
       [name |-> "update_invoice", kind |-> "update", entity |-> "invoice",
        params |-> <<"invoice_id", "invoice">>, gw |-> "update_invoice", wrap |-> <<>>],
       [name |-> "delete_invoice", kind |-> "delete", entity |-> "invoice",
        params |-> <<"invoice_id">>, gw |-> "delete_invoice", wrap |-> <<>>] >>

\* The five practitioner handlers: the registered name, the declared parameters in
\* signature order, the ClinikoClient method the body awaits, and the key the
\* body wraps the result under (<<>>: the result is returned as is).
Tools_practitioner ==
    << [name |-> "list_practitioners", kind |-> "list", entity |-> "practitioner",
        params |-> <<"q">>, gw |-> "list_practitioners", wrap |-> <<"practitioners">>],
       [name |-> "get_practitioner", kind |-> "get", entity |-> "practitioner",
        params |-> <<"practitioner_id">>, gw |-> "get_practitioner", wrap |-> <<>>],
       [name |-> "create_practitioner", kind |-> "create", entity |-> "practitioner",
        params |-> <<"practitioner">>, gw |-> "create_practitioner", wrap |-> <<>>],
       [name |-> "update_practitioner", kind |-> "update", entity |-> "practitioner",
        params |-> <<"practitioner_id", "practitioner">>, gw |-> "update_practitioner", wrap |-> <<>>],
       [name |-> "delete_practitioner", kind |-> "delete", entity |-> "practitioner",
        params |-> <<"practitioner_id">>, gw |-> "delete_practitioner", wrap |-> <<>>] >>

\* The tool registrations in source order (the @mcp.tool decorators).
ToolDefs == Tools_patient \o Tools_appointment \o Tools_invoice \o Tools_practitioner

\* The resource registrations in source order (the @mcp.resource decorators): the
\* template, its placeholders, the ClinikoClient method the body awaits with the
\* placeholders as arguments, and the key the result is wrapped under.
ResourceDefs ==
    << [template |-> "patient://{id}", params |-> <<"id">>,
        gw |-> "get_patient", wrap |-> <<>>],
       [template |-> "patients://list", params |-> <<>>,
        gw |-> "list_patients", wrap |-> <<"patients">>],
       [template |-> "appointment://{id}", params |-> <<"id">>,
        gw |-> "get_appointment", wrap |-> <<>>],
       [template |-> "appointments://list", params |-> <<>>,
        gw |-> "list_appointments", wrap |-> <<"appointments">>] >>

NumTools == Len(ToolDefs)
NumStatements == Len(ToolDefs) + Len(ResourceDefs)

Range(s) == {s[i] : i \in 1..Len(s)}

ToolNames == {ToolDefs[i].name : i \in 1..NumTools}
ToolDef(name) == ToolDefs[CHOOSE i \in 1..NumTools : ToolDefs[i].name = name]

Templates == {ResourceDefs[i].template : i \in 1..Len(ResourceDefs)}
ResourceDef(tpl) ==
    ResourceDefs[CHOOSE i \in 1..Len(ResourceDefs) : ResourceDefs[i].template = tpl]

\* Variant of ImportFinished: __main__ entered without waiting for the statements
\* above it.
ImportFinished_early == TRUE

\* Whether the transport may be started: __main__ runs after every module-level
\* statement above it has run.
ImportFinished == regIdx > NumStatements

\* One module-level registration statement.  A decorator that raises ends the
\* import, and with it the process, with a traceback (exit status 1).
Register ==
    /\ pc = "import"
    /\ regIdx <= NumStatements
    /\ \E ok \in BOOLEAN :
          IF ok
          THEN /\ IF regIdx <= NumTools
                  THEN /\ tools' = Append(tools, ToolDefs[regIdx].name)
                       /\ UNCHANGED resources
                  ELSE /\ resources' =
                            Append(resources, ResourceDefs[regIdx - NumTools].template)
                       /\ UNCHANGED tools
               /\ regIdx' = regIdx + 1
               /\ UNCHANGED << pc, exitCode >>
          ELSE /\ pc' = "exit"
               /\ exitCode' = 1
               /\ UNCHANGED << regIdx, tools, resources >>
    /\ UNCHANGED << toolsAttr, envTransport, envPort, transport, port, mode,
                    selections, cur, gwCalls, responses, served, lastRoot, lastHealth >>

-----------------------------------------------------------------------------
\* __main__

\* The registered-tools log: reads the registry, changes nothing.
EnterMain ==
    /\ pc = "import"
    /\ ImportFinished
    /\ pc' = "main"
    /\ UNCHANGED << regIdx, tools, resources, toolsAttr, envTransport, envPort,
                    transport, port, mode, selections, exitCode, cur, gwCalls,
                    responses, served, lastRoot, lastHealth >>

\* port = int(os.getenv("PORT", 8000)); transport = os.getenv("MCP_TRANSPORT",
\* "sse").lower().  int() of a non-number raises, which ends the process.
ReadConfig ==
    /\ pc = "main"
    /\ IF envPort # <<>> /\ ~IntAccepts(envPort[1])
       THEN /\ pc' = "exit"
            /\ exitCode' = 1
            /\ UNCHANGED << port, transport >>
       ELSE /\ port' = IF envPort = <<>> THEN DefaultPort ELSE IntOf(envPort[1])
            /\ transport' = << Lower(Getenv(envTransport, S_sse)) >>
            /\ pc' = "select"
            /\ UNCHANGED exitCode
    /\ UNCHANGED << regIdx, tools, resources, toolsAttr, envTransport, envPort,
                    mode, selections, cur, gwCalls, responses, served, lastRoot,
                    lastHealth >>

\* Variant of Branch: an unrecognized value falls back to the network listener.
Branch_fallback(t) == IF t = S_stdio THEN "stdio" ELSE "network"

\* The branch the if/elif/else on transport takes.
Branch(t) ==
    IF t = S_stdio THEN "stdio"
    ELSE IF t \in {S_sse, S_http} THEN "network"
    ELSE "unknown"

\* if transport == "stdio": mcp.run("stdio")
\* elif transport in ("sse", "http"): app = create_app(); uvicorn.run(app, ...)
\* else: exit(1)
SelectTransport ==
    /\ pc = "select"
    /\ selections' = selections + 1
    /\ LET b == Branch(transport[1]) IN
          CASE b = "stdio" ->
                 /\ mode' = "stdio"
                 /\ pc' = "stdio"
                 /\ UNCHANGED exitCode
            [] b = "network" ->
                 /\ mode' = "network"
                 /\ pc' = "network"
                 /\ UNCHANGED exitCode
            [] OTHER ->
                 /\ pc' = "exit"
                 /\ exitCode' = 1
                 /\ UNCHANGED mode
    /\ UNCHANGED << regIdx, tools, resources, toolsAttr, envTransport, envPort,
                    transport, port, cur, gwCalls, responses, served, lastRoot,
                    lastHealth >>

Serving == pc \in {"stdio", "network"}

\* mcp.run("stdio") returns when the input stream is closed, uvicorn.run when the
\* server is shut down; the script then ends with status 0.
Shutdown ==
    /\ Serving
    /\ cur.phase \in {"idle", "done"}
    /\ pc' = "exit"
    /\ exitCode' = 0
    /\ UNCHANGED << regIdx, tools, resources, toolsAttr, envTransport, envPort,
                    transport, port, mode, selections, cur, gwCalls, responses,
                    served, lastRoot, lastHealth >>

-----------------------------------------------------------------------------
\* Handlers

\* Argument values an Invocation may carry.
QValues == {"", "smith"}
IdValues == {42}
FieldValues == {[name |-> "Jane Doe"]}

\* Names no handler is registered under.
UnknownNames == {"list_widgets"}

\* What the ClinikoClient call ends with: a result, or one of the upstream failures.
Failures == {"NotFound", "Unauthorized", "UpstreamUnavailable", "UpstreamRejected",
             "Timeout", "Unknown"}
Outcomes == {"ok"} \cup Failures

Idle == [kind |-> "idle", name |-> "", args |-> <<>>, phase |-> "idle"]

\* Variant of HasDefault: every parameter is declared with a default.
HasDefault_all(t, p) == TRUE

\* Whether the signature gives parameter p a default: only q: str = "" does.
HasDefault(t, p) == t.kind = "list" /\ p = "q"

\* Variant of DefaultValue: q defaults to a wildcard.
DefaultValue_star(t, p) == "*"

\* The default the signature declares (q: str = "").
DefaultValue(t, p) == ""

\* The parameters a call must supply.
Required(t) == {p \in Range(t.params) : ~HasDefault(t, p)}

\* The handler's parameters for an argument bag: the bag's value, else the default.
BindArgs(t, bag) ==
    [p \in Range(t.params) |-> IF p \in DOMAIN bag THEN bag[p] ELSE DefaultValue(t, p)]

\* The ClinikoClient call a tool handler's body awaits: every handler passes its
\* parameters on, in signature order.
HandlerCall(t, bound) ==
    [method |-> t.gw, args |-> [i \in 1..Len(t.params) |-> bound[t.params[i]]]]

\* The ClinikoClient call a resource handler's body awaits: get_*_resource passes
\* the id on, list_*_resource calls with no argument.
ResourceCall(r, bound) ==
    [method |-> r.gw, args |-> [i \in 1..Len(r.params) |-> bound[r.params[i]]]]

\* What a handler returns for the client's result: list handlers wrap it under
\* the plural key, the others return it as is.
HandlerResult(wrap, result) ==
    IF wrap = <<>> THEN result ELSE [key |-> wrap[1], value |-> result]

\* Variant of CallsAfter: a failed call is issued a second time.
CallsAfter_retry(def, bound, outcome) ==
    IF outcome = "ok" THEN <<>> ELSE << HandlerCall(def, bound) >>

\* The calls a handler makes once its one awaited call has ended with `outcome`:
\* none; a failure is not caught in the handler and leaves it at once.
CallsAfter(def, bound, outcome) == <<>>

-----------------------------------------------------------------------------
\* Dispatch (FastMCP): resolve, validate, call the handler, wrap.

Success(payload) == [success |-> TRUE, payload |-> <<payload>>, error |-> <<>>]
Failure(kind, message) ==
    [success |-> FALSE, payload |-> <<>>,
     error |-> << [kind |-> kind, message |-> message] >>]

Registered(name) == name \in Range(tools)

MissingParams(t, bag) == {p \in Required(t) : p \notin DOMAIN bag}

\* The value an Invocation carries for parameter p of t.
ValueFor(t, p, q, id, fields) ==
    IF t.kind = "list" THEN q ELSE IF p = t.entity THEN fields ELSE id

\* A tool Invocation arrives over the running transport.
ReceiveTool ==
    /\ Serving
    /\ cur.phase \in {"idle", "done"}
    /\ served < MaxInvocations
    /\ \/ \E i \in 1..NumTools, q \in QValues, id \in IdValues, f \in FieldValues :
            \E present \in SUBSET Range(ToolDefs[i].params) :
               cur' = [kind |-> "tool", name |-> ToolDefs[i].name,
                       args |-> [p \in present |->
                                    ValueFor(ToolDefs[i], p, q, id, f)],
                       phase |-> "received"]
       \/ \E n \in UnknownNames, q \in QValues, present \in SUBSET {"q"} :
            cur' = [kind |-> "tool", name |-> n,
                    args |-> [p \in present |-> q], phase |-> "received"]
    /\ gwCalls' = <<>>
    /\ responses' = <<>>
    /\ served' = served + 1
    /\ UNCHANGED << pc, regIdx, tools, resources, toolsAttr, envTransport,
                    envPort, transport, port, mode, selections, exitCode, lastRoot,
                    lastHealth >>

\* A resource read arrives: the URI matched one of the registered templates.
ReceiveResource ==
    /\ Serving
    /\ cur.phase \in {"idle", "done"}
    /\ served < MaxInvocations
    /\ \E tpl \in Range(resources), id \in IdValues :
          cur' = [kind |-> "resource", name |-> tpl,
                  args |-> [p \in Range(ResourceDef(tpl).params) |-> id],
                  phase |-> "received"]
    /\ gwCalls' = <<>>
    /\ responses' = <<>>
    /\ served' = served + 1
    /\ UNCHANGED << pc, regIdx, tools, resources, toolsAttr, envTransport,
                    envPort, transport, port, mode, selections, exitCode, lastRoot,
                    lastHealth >>

\* The name is resolved and the arguments are validated; the handler is entered
\* and awaits its ClinikoClient call.
Dispatch ==
    /\ cur.phase = "received"
    /\ IF cur.kind = "resource"
       THEN /\ gwCalls' = Append(gwCalls, ResourceCall(ResourceDef(cur.name), cur.args))
            /\ cur' = [cur EXCEPT !.phase = "awaiting"]
            /\ UNCHANGED responses
       ELSE IF ~Registered(cur.name)
       THEN /\ responses' = Append(responses, Failure("UnknownOperation", cur.name))
            /\ cur' = [cur EXCEPT !.phase = "done"]
            /\ UNCHANGED gwCalls
       ELSE IF MissingParams(ToolDef(cur.name), cur.args) # {}
       THEN /\ responses' = Append(responses, Failure("InvalidArgument", cur.name))
            /\ cur' = [cur EXCEPT !.phase = "done"]
            /\ UNCHANGED gwCalls
       ELSE /\ gwCalls' = Append(gwCalls,
                 HandlerCall(ToolDef(cur.name), BindArgs(ToolDef(cur.name), cur.args)))
            /\ cur' = [cur EXCEPT !.phase = "awaiting"]
            /\ UNCHANGED responses
    /\ UNCHANGED << pc, regIdx, tools, resources, toolsAttr, envTransport,
                    envPort, transport, port, mode, selections, exitCode, served,
                    lastRoot, lastHealth >>

\* The ClinikoClient call ends; the handler returns its result or lets the failure
\* out, and the outcome is wrapped into the one Response.
GatewayReturn ==
    /\ cur.phase = "awaiting"
    /\ \E outcome \in Outcomes :
          LET def == IF cur.kind = "resource" THEN ResourceDef(cur.name)
                     ELSE ToolDef(cur.name)
              bound == IF cur.kind = "resource" THEN cur.args
                       ELSE BindArgs(def, cur.args)
              call == gwCalls[Len(gwCalls)]
          IN /\ gwCalls' = gwCalls \o CallsAfter(def, bound, outcome)
             /\ responses' = Append(responses,
                   IF outcome = "ok"
                   THEN Success(HandlerResult(def.wrap, [from |-> call.method]))
                   ELSE Failure(outcome, call.method))
    /\ cur' = [cur EXCEPT !.phase = "done"]
    /\ UNCHANGED << pc, regIdx, tools, resources, toolsAttr, envTransport,
                    envPort, transport, port, mode, selections, exitCode, served,
                    lastRoot, lastHealth >>

-----------------------------------------------------------------------------
\* The wrapper app's own routes (network mode).

\* GET /health: a fixed body, status 200.
health_check ==
    /\ pc = "network"
    /\ lastHealth' = << [status |-> "healthy", transport |-> "sse", code |-> 200] >>
    /\ UNCHANGED << pc, regIdx, tools, resources, toolsAttr, envTransport,
                    envPort, transport, port, mode, selections, exitCode, cur,
                    gwCalls, responses, served, lastRoot >>

\* Variant of RootToolNames: the last registered name is left out.
RootToolNames_short ==
    IF toolsAttr = "mapping" /\ Len(tools) > 0
    THEN SubSeq(tools, 1, Len(tools) - 1)
    ELSE <<>>

\* What mcp._tools may be: the registry mapping; absent (hasattr is false); or
\* present but not usable as a mapping, so that .keys() raises.
ToolsAttrStates == {"mapping", "absent", "unusable"}

\* tool_names as root computes it: list(mcp._tools.keys()) when the instance has
\* the attribute; the empty list it started from when it has not; the empty list
\* of the except branch when reading the keys raises.
RootToolNames ==
    CASE toolsAttr = "mapping" -> tools
      [] toolsAttr = "absent" -> <<>>
      [] OTHER -> <<>>

\* GET /: the service description with tools_count and tools.
root ==
    /\ pc = "network"
    /\ lastRoot' = << [tools_count |-> Len(RootToolNames), tools |-> RootToolNames] >>
    /\ UNCHANGED << pc, regIdx, tools, resources, toolsAttr, envTransport,
                    envPort, transport, port, mode, selections, exitCode, cur,
                    gwCalls, responses, served, lastHealth >>

-----------------------------------------------------------------------------

Init ==
    /\ pc = "import"
    /\ regIdx = 1
    /\ tools = <<>>
    /\ resources = <<>>
    /\ toolsAttr \in ToolsAttrStates
    /\ envTransport \in TransportValues
    /\ envPort \in PortValues
    /\ transport = <<>>
    /\ port = -1
    /\ mode = "none"
    /\ selections = 0
    /\ exitCode = -1
    /\ cur = Idle
    /\ gwCalls = <<>>
    /\ responses = <<>>
    /\ served = 0
    /\ lastRoot = <<>>
    /\ lastHealth = <<>>

Next ==
    \/ Register
    \/ EnterMain
    \/ ReadConfig
    \/ SelectTransport
    \/ ReceiveTool
    \/ ReceiveResource
    \/ Dispatch
    \/ GatewayReturn
    \/ health_check
    \/ root
    \/ Shutdown

Spec == Init /\ [][Next]_vars

-----------------------------------------------------------------------------
\* Properties

Selected == pc \notin {"import", "main", "select"} /\ transport # <<>>

Recognized == { <<S_stdio>>, <<S_sse>>, <<S_http>> }

NothingServed ==
    served = 0 /\ lastRoot = <<>> /\ lastHealth = <<>> /\ cur = Idle

TransportState ==
    /\ selections <= 1
    /\ (pc = "stdio" => mode = "stdio") /\ (pc = "network" => mode = "network")
    /\ mode = "stdio" => transport = <<S_stdio>>
    /\ mode = "network" => transport \in { <<S_sse>>, <<S_http>> }
    /\ mode # "none" => selections = 1
    /\ (Selected /\ transport = <<S_stdio>>) => mode = "stdio"
    /\ (Selected /\ transport \in { <<S_sse>>, <<S_http>> }) => mode = "network"
    /\ (Selected /\ transport \notin Recognized) =>
          (mode = "none" /\ pc = "exit" /\ exitCode = 1 /\ NothingServed)

\* C4: the transport is selected once at startup from the configured value: stdio
\* starts only the stdio loop, sse/http only the network listener, any other value
\* ends the process with exit status 1 with nothing started or served; a started
\* mode never changes.
C4_TransportSelection ==
    /\ []TransportState
    /\ [][(mode # "none" => mode' = mode) /\ selections' >= selections]_vars

C4_Witness ==
    /\ pc = "exit" /\ exitCode = 1 /\ selections = 1
    /\ transport = << <<"g", "r", "p", "c">> >>

IdParams(t) == {p \in Range(t.params) : t.kind \in {"get", "update", "delete"} /\ p # t.entity}

LacksId ==
    /\ cur.kind = "tool"
    /\ cur.name \in ToolNames
    /\ ToolDef(cur.name).kind \in {"get", "update", "delete"}
    /\ \E p \in IdParams(ToolDef(cur.name)) : p \notin DOMAIN cur.args

\* C6: a get_*, update_* or delete_* Invocation whose arguments lack the identifier
\* ends in one Response with error.kind = InvalidArgument and no ClinikoClient call.
C6_MissingIdRejected ==
    LacksId =>
       /\ gwCalls = <<>>
       /\ cur.phase # "awaiting"
       /\ cur.phase = "done" =>
             /\ Len(responses) = 1
             /\ ~responses[1].success
             /\ responses[1].error[1].kind = "InvalidArgument"

C6_Witness ==
    /\ cur.kind = "tool" /\ cur.name = "update_practitioner"
    /\ DOMAIN cur.args = {"practitioner"}
    /\ cur.phase = "done"

ListToolNoFilter ==
    /\ cur.kind = "tool"
    /\ cur.name \in ToolNames
    /\ ToolDef(cur.name).kind = "list"
    /\ "q" \notin DOMAIN cur.args

ListResource ==
    /\ cur.kind = "resource"
    /\ ResourceDef(cur.name).params = <<>>

\* C7 as stated: for a list made with no filter, on the tool path and on the list
\* resource path, the argument passed to the ClinikoClient list call is "".
C7_EmptyStringPassed ==
    (ListToolNoFilter \/ ListResource) =>
       \A i \in 1..Len(gwCalls) : gwCalls[i].args = << "" >>

\* C7 amended: a list tool called with no filter passes "" to the ClinikoClient list
\* call of its entity; a list resource (patients, appointments) calls it with no
\* argument at all.
C7_ListFilter ==
    /\ ListToolNoFilter =>
          /\ \A i \in 1..Len(gwCalls) :
                gwCalls[i] = [method |-> cur.name, args |-> << "" >>]
          /\ cur.phase \in {"awaiting", "done"} => Len(gwCalls) = 1
    /\ ListResource =>
          /\ \A i \in 1..Len(gwCalls) : gwCalls[i].args = <<>>
          /\ cur.phase \in {"awaiting", "done"} => Len(gwCalls) = 1

C7_Witness ==
    /\ ListToolNoFilter /\ cur.name = "list_invoices"
    /\ cur.phase = "done" /\ Len(gwCalls) = 1

RegistrationComplete ==
    /\ regIdx > NumStatements
    /\ tools = [i \in 1..NumTools |-> ToolDefs[i].name]
    /\ resources = [i \in 1..Len(ResourceDefs) |-> ResourceDefs[i].template]

HandlerEntered ==
    /\ cur.kind = "tool"
    /\ cur.name \in ToolNames
    /\ ToolDef(cur.name).kind \in {"get", "create", "update", "delete"}
    /\ MissingParams(ToolDef(cur.name), cur.args) = {}
    /\ cur.phase \in {"awaiting", "done"}

\* C10: a get, create, update or delete handler makes exactly one ClinikoClient
\* call per Invocation; when the call fails it is not made again and exactly one
\* error Response results.
C10_OneCallNoRetry ==
    HandlerEntered =>
       /\ Len(gwCalls) = 1
       /\ gwCalls[1].method = cur.name
       /\ cur.phase = "awaiting" => responses = <<>>
       /\ cur.phase = "done" => Len(responses) = 1
       /\ (cur.phase = "done" /\ ~responses[1].success) =>
             responses[1].error[1].kind \in Failures

C10_Witness ==
    /\ HandlerEntered /\ cur.name = "delete_invoice" /\ cur.phase = "done"
    /\ ~responses[1].success /\ responses[1].error[1].kind = "Timeout"

====
